---- MODULE Spec2Model ----
(***************************************************************************)
(* load_data of src/app.py: the regularisation of a raw sales table into   *)
(* one weekly series per store.                                            *)
(*                                                                         *)
(* A raw table is a sequence of rows.  A Date cell is the text of a date,  *)
(* held as <<year, month, day>>; a Weekly_Sales cell is the text of a      *)
(* number, held as its sequence of decimal digits (the empty cell is <<>>).*)
(* A timestamp is a day number, day 0 being 2023-01-01 (a Sunday); NaT and *)
(* NaN are the values pandas coerces an unparsable cell to.  A target is a *)
(* rational <<numerator, denominator>> in lowest terms.  The holiday       *)
(* columns are modelled by their presence in the header; their cells are   *)
(* taken to be non-null.                                                   *)
(***************************************************************************)
EXTENDS Integers, Sequences, FiniteSets

VARIABLES columns, raw, df, groups, regular_data, ts_df, pc, error

vars == <<columns, raw, df, groups, regular_data, ts_df, pc, error>>

-----------------------------------------------------------------------------
(* Bounds and input domains *)

MaxRows == 3

Stores == {1, 2}

DateCells == {<<2023, 1, 1>>, <<2023, 1, 6>>, <<2023, 1, 8>>, <<2023, 1, 13>>,
              <<2023, 1, 15>>, <<2023, 1, 20>>, <<2023, 13, 1>>}

SalesCells == {<<1, 0, 0>>, <<2, 0, 0>>, <<>>}

-----------------------------------------------------------------------------
(* Program constants *)

covariates == {"IsHoliday", "Super_Bowl", "Labor_Day", "Thanksgiving", "Christmas"}

RequiredColumns == {"Date", "Weekly_Sales"}

DefaultItemId == 1

\* freq = 'W' is pandas' weekly offset anchored on Sunday (weekday 6, Monday
\* being 0), with a step of 7 days.
WeekAnchor == 6

WeekDays == 7

NaT == -1

NaN == <<0, 0>>

-----------------------------------------------------------------------------
(* Cell conversions *)

DaysInMonth(m) ==
    IF m = 2 THEN 28 ELSE IF m \in {4, 6, 9, 11} THEN 30 ELSE 31

RECURSIVE DaysBeforeMonth(_)
DaysBeforeMonth(m) ==
    IF m <= 1 THEN 0 ELSE DaysBeforeMonth(m - 1) + DaysInMonth(m - 1)

\* pd.to_datetime(..., errors='coerce'): the day number of a date text, NaT
\* for a text that names no calendar day.
to_datetime(cell) ==
    IF /\ cell[1] = 2023
       /\ cell[2] \in 1..12
       /\ cell[3] \in 1..DaysInMonth(cell[2])
    THEN DaysBeforeMonth(cell[2]) + cell[3] - 1
    ELSE NaT

RECURSIVE DigitsValue(_)
DigitsValue(ds) ==
    IF ds = <<>> THEN 0
    ELSE 10 * DigitsValue(SubSeq(ds, 1, Len(ds) - 1)) + ds[Len(ds)]

\* pd.to_numeric(..., errors='coerce'): the number a cell's digits spell, NaN
\* for an empty cell.
to_numeric(cell) ==
    IF cell # <<>> /\ \A i \in 1..Len(cell) : cell[i] \in 0..9
    THEN <<DigitsValue(cell), 1>>
    ELSE NaN

\* A wrong default identifier for a file without Store.
item_id_default_zero(row) ==
    IF "Store" \in columns THEN row.Store ELSE 0

\* df['Store'] if 'Store' in df.columns else 1
item_id_of(row) ==
    IF "Store" \in columns THEN row.Store ELSE DefaultItemId

\* Timestamp.weekday(): Monday is 0, Sunday is 6; day 0 is a Sunday.
weekday(t) == (t + 6) % WeekDays

-----------------------------------------------------------------------------
(* Data-frame operations *)

RECURSIVE Gcd(_, _)
Gcd(a, b) == IF b = 0 THEN a ELSE Gcd(b, a % b)

\* n / d as a rational in lowest terms.
Frac(n, d) == <<n \div Gcd(n, d), d \div Gcd(n, d)>>

RECURSIVE SumTargets(_)
SumTargets(rows) ==
    IF rows = <<>> THEN 0 ELSE rows[1].target[1] + SumTargets(Tail(rows))

\* The mean of the target column of a non-empty group of rows (targets are
\* whole numbers at this point: they come from to_numeric).
mean(rows) == Frac(SumTargets(rows), Len(rows))

\* dropna(subset=['timestamp']): rows with a null target survive.
dropna_timestamp_only(rows) ==
    LET Stamped(r) == r.timestamp # NaT IN SelectSeq(rows, Stamped)

\* A row survives dropna() when none of its retained cells is null.
NotNull(r) == r.timestamp # NaT /\ r.target # NaN

\* DataFrame.dropna()
dropna(rows) == SelectSeq(rows, NotNull)

\* The order of sort_values(by=['item_id', 'timestamp']).
KeyLess(a, b) ==
    \/ a.item_id < b.item_id
    \/ a.item_id = b.item_id /\ a.timestamp < b.timestamp

RECURSIVE Insert(_, _)
Insert(r, sorted) ==
    IF sorted = <<>> THEN <<r>>
    ELSE IF KeyLess(r, sorted[1]) THEN <<r>> \o sorted
    ELSE <<sorted[1]>> \o Insert(r, Tail(sorted))

\* sort_values(by=['item_id', 'timestamp']).reset_index(drop=True); rows with
\* equal keys keep their relative order.
RECURSIVE sort_values(_)
sort_values(rows) ==
    IF rows = <<>> THEN <<>>
    ELSE Insert(rows[Len(rows)], sort_values(SubSeq(rows, 1, Len(rows) - 1)))

SameKey(a, b) == a.item_id = b.item_id /\ a.timestamp = b.timestamp

\* groupby(['item_id', 'timestamp'], as_index=False).mean(): one row per key,
\* keys ascending, the target being the mean of the key's rows.
RECURSIVE groupby_mean(_)
groupby_mean(rows) ==
    IF rows = <<>> THEN <<>>
    ELSE LET k     == rows[1]
             IsK(r)  == SameKey(r, k)
             NotK(r) == ~SameKey(r, k)
             grp   == SelectSeq(rows, IsK)
             agg   == [item_id |-> k.item_id, timestamp |-> k.timestamp,
                       target |-> mean(grp)]
         IN  Insert(agg, groupby_mean(SelectSeq(rows, NotK)))

RECURSIVE SortedIds(_)
SortedIds(S) ==
    IF S = {} THEN <<>>
    ELSE LET m == CHOOSE x \in S : \A y \in S : x <= y
         IN  <<m>> \o SortedIds(S \ {m})

\* The keys df.groupby('item_id') iterates over, ascending.
item_ids(rows) == SortedIds({rows[i].item_id : i \in 1..Len(rows)})

\* The group of one item_id, in the frame's order.
group_of(rows, id) ==
    LET Mine(r) == r.item_id = id IN SelectSeq(rows, Mine)

-----------------------------------------------------------------------------
(* asfreq('W', method='pad') *)

\* Week.rollforward: the first anchor day at or after t.
rollforward(t) == t + ((WeekAnchor - weekday(t)) % WeekDays)

\* Week.rollback: the last anchor day at or before t.
rollback(t) == t - ((weekday(t) - WeekAnchor) % WeekDays)

\* date_range(start, end, freq='W'): the anchor days of [start, end], ascending.
RECURSIVE RangeFrom(_, _)
RangeFrom(t, last) ==
    IF t > last THEN <<>> ELSE <<t>> \o RangeFrom(t + WeekDays, last)

\* A range whose start is rolled back to the anchor day before it.
date_range_floor(start, end) == RangeFrom(rollback(start), rollback(end))

date_range(start, end) == RangeFrom(rollforward(start), rollback(end))

\* reindex(..., method='bfill'): the row with the least timestamp at or after t.
pad_lookahead(grp, t) ==
    LET after == {i \in 1..Len(grp) : grp[i].timestamp >= t}
    IN  IF after = {} THEN NaN
        ELSE LET i == CHOOSE j \in after :
                          \A l \in after : grp[j].timestamp <= grp[l].timestamp
             IN  grp[i].target

\* reindex(..., method='pad') of one index value: the group's row with the
\* greatest timestamp at or before t, NaN when the group has none.
pad(grp, t) ==
    LET before == {i \in 1..Len(grp) : grp[i].timestamp <= t}
    IN  IF before = {} THEN NaN
        ELSE LET i == CHOOSE j \in before :
                          \A l \in before : grp[l].timestamp <= grp[j].timestamp
             IN  grp[i].target

\* The loop body without the resampling: the group's own rows.
asfreq_skipped(grp, id) ==
    [n \in 1..Len(grp) |->
        [item_id |-> id, timestamp |-> grp[n].timestamp, target |-> grp[n].target]]

\* group.set_index('timestamp').asfreq(freq, method='pad'), then
\* group['item_id'] = item_id and reset_index(): one row per grid day.
asfreq(grp, id) ==
    LET stamps == {grp[i].timestamp : i \in 1..Len(grp)}
        lo  == CHOOSE t \in stamps : \A u \in stamps : t <= u
        hi  == CHOOSE t \in stamps : \A u \in stamps : u <= t
        idx == date_range(lo, hi)
    IN  [n \in 1..Len(idx) |->
            [item_id |-> id, timestamp |-> idx[n], target |-> pad(grp, idx[n])]]

RECURSIVE concat(_)
concat(frames) ==
    IF frames = <<>> THEN <<>> ELSE frames[1] \o concat(Tail(frames))


-----------------------------------------------------------------------------
(* Input tables *)

AllColumns == RequiredColumns \cup {"Store"} \cup covariates

\* The headers a file may have: all columns, no Store, and two headers that
\* lack holiday columns.
ColumnChoices ==
    { AllColumns,
      AllColumns \ {"Store"},
      RequiredColumns \cup {"IsHoliday"},
      RequiredColumns }

RowsOf(cols) ==
    IF "Store" \in cols
    THEN [Store : Stores, Date : DateCells, Weekly_Sales : SalesCells]
    ELSE [Date : DateCells, Weekly_Sales : SalesCells]

\* Files are enumerated most recent date first (then by amount, then by
\* store): one file order per multiset of rows.
RowCode(cols, r) ==
    ((r.Date[2] * 100 + r.Date[3]) * 1000 + DigitsValue(r.Weekly_Sales)) * 10
        + (IF "Store" \in cols THEN r.Store ELSE 0)

-----------------------------------------------------------------------------
(* load_data, statement by statement *)

\* Before the call: a file with one of the headers and no row read yet.
Init ==
    /\ columns \in ColumnChoices
    /\ raw = <<>>
    /\ df = <<>>
    /\ groups = <<>>
    /\ regular_data = <<>>
    /\ ts_df = <<>>
    /\ pc = "read"
    /\ error = "none"

\* pd.read_csv(file_path) reads one more row of the file.
ReadRow ==
    /\ pc = "read"
    /\ Len(raw) < MaxRows
    /\ \E r \in RowsOf(columns) :
          /\ IF raw = <<>> THEN TRUE
             ELSE RowCode(columns, raw[Len(raw)]) >= RowCode(columns, r)
          /\ raw' = Append(raw, r)
    /\ UNCHANGED <<columns, df, groups, regular_data, ts_df, pc, error>>

\* pd.read_csv(file_path) reaches the end of the file.
EndOfFile ==
    /\ pc = "read"
    /\ pc' = "coerce"
    /\ UNCHANGED <<columns, raw, df, groups, regular_data, ts_df, error>>

\* df['timestamp'], df['target'], df['item_id']
Coerce ==
    /\ pc = "coerce"
    /\ df' = [i \in 1..Len(raw) |->
                 [item_id   |-> item_id_of(raw[i]),
                  timestamp |-> to_datetime(raw[i].Date),
                  target    |-> to_numeric(raw[i].Weekly_Sales)]]
    /\ pc' = "project"
    /\ UNCHANGED <<columns, raw, groups, regular_data, ts_df, error>>

\* A projection that selects only the holiday columns the frame has.
HasColumnsLenient == RequiredColumns \subseteq columns

\* df[['item_id', 'timestamp', 'target'] + covariates] raises KeyError when a
\* listed column is not in the frame.
HasColumns == covariates \subseteq columns

\* df = df[['item_id', 'timestamp', 'target'] + covariates].dropna()
Project ==
    /\ pc = "project"
    /\ IF HasColumns
       THEN /\ df' = dropna(df)
            /\ pc' = "sort"
            /\ error' = error
       ELSE /\ df' = df
            /\ pc' = "raised"
            /\ error' = "KeyError"
    /\ UNCHANGED <<columns, raw, groups, regular_data, ts_df>>

\* df = df.sort_values(by=['item_id', 'timestamp']).reset_index(drop=True)
Sort ==
    /\ pc = "sort"
    /\ df' = sort_values(df)
    /\ pc' = "dedup"
    /\ UNCHANGED <<columns, raw, groups, regular_data, ts_df, error>>

\* df = df.groupby(['item_id', 'timestamp'], as_index=False).mean(), then the
\* start of the loop over df.groupby('item_id').
Dedup ==
    /\ pc = "dedup"
    /\ df' = groupby_mean(df)
    /\ groups' = item_ids(df')
    /\ regular_data' = <<>>
    /\ pc' = "resample"
    /\ UNCHANGED <<columns, raw, ts_df, error>>

\* One iteration of the loop: resample the next item_id's group.
Resample ==
    /\ pc = "resample"
    /\ groups # <<>>
    /\ regular_data' =
           Append(regular_data, asfreq(group_of(df, Head(groups)), Head(groups)))
    /\ groups' = Tail(groups)
    /\ UNCHANGED <<columns, raw, df, ts_df, pc, error>>

\* pd.concat(regular_data, ignore_index=True) raises ValueError on an empty
\* list; otherwise the frame is cast and returned.
Concat ==
    /\ pc = "resample"
    /\ groups = <<>>
    /\ IF regular_data = <<>>
       THEN /\ ts_df' = ts_df
            /\ pc' = "raised"
            /\ error' = "ValueError"
       ELSE /\ ts_df' = concat(regular_data)
            /\ pc' = "done"
            /\ error' = error
    /\ UNCHANGED <<columns, raw, df, groups, regular_data>>

Next == ReadRow \/ EndOfFile \/ Coerce \/ Project \/ Sort \/ Dedup \/ Resample \/ Concat

Spec == Init /\ [][Next]_vars


\* load_data as a function of the table: the outcome ("ok" or the exception
\* raised) and the frame returned.
load_data(rows) ==
    LET coerced == [i \in 1..Len(rows) |->
                       [item_id   |-> item_id_of(rows[i]),
                        timestamp |-> to_datetime(rows[i].Date),
                        target    |-> to_numeric(rows[i].Weekly_Sales)]]
        dedup   == groupby_mean(sort_values(dropna(coerced)))
        ids     == item_ids(dedup)
        frames  == [k \in 1..Len(ids) |-> asfreq(group_of(dedup, ids[k]), ids[k])]
    IN  IF ~HasColumns THEN [outcome |-> "KeyError", frame |-> <<>>]
        ELSE IF frames = <<>> THEN [outcome |-> "ValueError", frame |-> <<>>]
        ELSE [outcome |-> "ok", frame |-> concat(frames)]

-----------------------------------------------------------------------------
(* The raw table as the claims speak of it *)

\* A raw row is valid when both its date and its sales amount parse.
WellFormed(r) == to_datetime(r.Date) # NaT /\ to_numeric(r.Weekly_Sales) # NaN

ValidRows == {i \in 1..Len(raw) : WellFormed(raw[i])}

\* The entity a raw row belongs to: its Store, or 1 in a file without Store.
EntityOf(i) == IF "Store" \in columns THEN raw[i].Store ELSE 1

Stamp(i) == to_datetime(raw[i].Date)

Amount(i) == DigitsValue(raw[i].Weekly_Sales)

Entities == {EntityOf(i) : i \in ValidRows}

\* The valid raw rows of entity e at timestamp t.
RowsAt(e, t) == {i \in ValidRows : EntityOf(i) = e /\ Stamp(i) = t}

\* The observed timestamps of entity e.
ObsTimes(e) == {Stamp(i) : i \in {j \in ValidRows : EntityOf(j) = e}}

RECURSIVE SumAmounts(_)
SumAmounts(I) ==
    IF I = {} THEN 0
    ELSE LET i == CHOOSE j \in I : TRUE IN Amount(i) + SumAmounts(I \ {i})

\* The deduplicated observation of entity e at t: the mean of its raw amounts.
ObsValue(e, t) == Frac(SumAmounts(RowsAt(e, t)), Cardinality(RowsAt(e, t)))

MinOf(S) == CHOOSE t \in S : \A u \in S : t <= u

MaxOf(S) == CHOOSE t \in S : \A u \in S : u <= t

\* The output rows of entity e.
OutOf(e) == {i \in 1..Len(ts_df) : ts_df[i].item_id = e}

OutAt(e, t) == {i \in OutOf(e) : ts_df[i].timestamp = t}

Done == pc = "done"

Returned == pc \in {"done", "raised"}

\* The raw rows of entity e are a regular weekly series: one valid row per
\* observed timestamp, and every observed timestamp but the last is followed
\* by one 7 days later.
RegularSeries(e) ==
    /\ ObsTimes(e) # {}
    /\ \A t \in ObsTimes(e) :
           /\ Cardinality(RowsAt(e, t)) = 1
           /\ t = MaxOf(ObsTimes(e)) \/ (t + 7) \in ObsTimes(e)


-----------------------------------------------------------------------------
(* Claims *)

\* C3: in the result every entity's rows are strictly increasing in
\* timestamp, no (item_id, timestamp) key occurs twice, and two rows of one
\* entity with no row of that entity between them are exactly 7 days apart.
C3_WeeklyStep ==
    Done =>
        \A i \in 1..Len(ts_df) : \A j \in 1..Len(ts_df) :
            (i < j /\ ts_df[i].item_id = ts_df[j].item_id) =>
                /\ ts_df[i].timestamp < ts_df[j].timestamp
                /\ (~\E l \in OutOf(ts_df[i].item_id) :
                        /\ ts_df[i].timestamp < ts_df[l].timestamp
                        /\ ts_df[l].timestamp < ts_df[j].timestamp)
                   => ts_df[j].timestamp - ts_df[i].timestamp = 7

\* A result with two entities, one of which has at least three rows.
C3_Witness ==
    /\ Done
    /\ \E e \in Entities : Cardinality(OutOf(e)) >= 3
    /\ \E e \in Entities : \E f \in Entities :
           e # f /\ OutOf(e) # {} /\ OutOf(f) # {}

\* C4: no row of the result lies before its entity's earliest valid
\* observation or after its latest one.
C4_WithinObservedSpan ==
    Done =>
        \A i \in 1..Len(ts_df) :
            LET T == ObsTimes(ts_df[i].item_id)
            IN  /\ T # {}
                /\ MinOf(T) <= ts_df[i].timestamp
                /\ ts_df[i].timestamp <= MaxOf(T)

\* A result with rows of an entity whose first and last observations are not
\* on the weekly anchor day, so that the grid's ends had to be rolled inwards.
C4_Witness ==
    /\ Done
    /\ \E e \in Entities :
           /\ OutOf(e) # {}
           /\ weekday(MinOf(ObsTimes(e))) # 6
           /\ weekday(MaxOf(ObsTimes(e))) # 6

\* C10: every row of the result carries the deduplicated value of its own
\* entity's latest observation at or before the row's timestamp.
C10_ForwardFillNoLookAhead ==
    Done =>
        \A i \in 1..Len(ts_df) :
            LET e == ts_df[i].item_id
                T == {t \in ObsTimes(e) : t <= ts_df[i].timestamp}
            IN  /\ T # {}
                /\ ts_df[i].target = ObsValue(e, MaxOf(T))

\* A filled row (no observation at its timestamp) that follows a duplicate
\* group with two different amounts and precedes a later observation of a
\* different value.
C10_Witness ==
    /\ Done
    /\ \E i \in 1..Len(ts_df) :
           LET e == ts_df[i].item_id
               t == ts_df[i].timestamp
               T == {u \in ObsTimes(e) : u <= t}
               U == {u \in ObsTimes(e) : u > t}
           IN  /\ t \notin ObsTimes(e)
               /\ T # {}
               /\ U # {}
               /\ Cardinality(RowsAt(e, MaxOf(T))) = 2
               /\ \E a \in RowsAt(e, MaxOf(T)) : \E b \in RowsAt(e, MaxOf(T)) :
                      Amount(a) # Amount(b)
               /\ ObsValue(e, MinOf(U)) # ObsValue(e, MaxOf(T))

\* C9: in a file without a Store column every row of the result carries the
\* identifier 1; in a file with one, every row carries the Store of valid raw
\* rows at or before its timestamp, and its value is the mean of the latest
\* of them.
C9_EntityIdentifier ==
    Done =>
        \A i \in 1..Len(ts_df) :
            IF "Store" \notin columns
            THEN ts_df[i].item_id = 1
            ELSE LET src == {j \in ValidRows :
                                /\ raw[j].Store = ts_df[i].item_id
                                /\ Stamp(j) <= ts_df[i].timestamp}
                     last == {j \in src : \A l \in src : Stamp(l) <= Stamp(j)}
                 IN  /\ src # {}
                     /\ ts_df[i].target = Frac(SumAmounts(last), Cardinality(last))

\* A non-empty result of a file without a Store column.
C9_Witness ==
    /\ Done
    /\ "Store" \notin columns
    /\ Len(ts_df) >= 2


\* C5: the call's outcome and result are those of the same table with every
\* row whose date or sales amount does not parse removed.
C5_DropOnMalformed ==
    Returned =>
        [outcome |-> IF Done THEN "ok" ELSE error, frame |-> ts_df]
            = load_data(SelectSeq(raw, WellFormed))

\* A non-empty result of a table in which a row with an unparsable amount
\* shares its store and date with a valid row, and another row has an
\* unparsable date.
C5_Witness ==
    /\ Done
    /\ ts_df # <<>>
    /\ \E i \in 1..Len(raw) : \E j \in ValidRows :
           /\ to_numeric(raw[i].Weekly_Sales) = NaN
           /\ Stamp(i) # NaT
           /\ Stamp(i) = Stamp(j)
           /\ EntityOf(i) = EntityOf(j)
    /\ \E i \in 1..Len(raw) : Stamp(i) = NaT

\* C8 (as amended): the holiday columns are required.  The call gets past
\* the projection exactly when the file has all five of them, and raises
\* KeyError there when it lacks any.
C8_CovariatesRequired ==
    /\ pc \notin {"read", "coerce", "project"} =>
          (error = "KeyError" <=> ~(covariates \subseteq columns))
    /\ Done => covariates \subseteq columns

\* The call has raised KeyError on a file that has Date, Weekly_Sales and one
\* holiday column, with valid rows in it.
C8_Witness ==
    /\ pc = "raised"
    /\ error = "KeyError"
    /\ RequiredColumns \subseteq columns
    /\ "IsHoliday" \in columns
    /\ ValidRows # {}

\* C8 (as claimed): a file with Date and Weekly_Sales and valid rows that
\* lacks holiday columns is regularized without an error.
C8_CovariatesOptional ==
    ( /\ RequiredColumns \subseteq columns
      /\ ~(covariates \subseteq columns)
      /\ ValidRows # {} ) => pc # "raised"

\* C6 (as claimed): a file with all the columns and at least one row never
\* makes the call raise, whichever of its rows are malformed.
C6_NeverRaisesOnMalformedRows ==
    (AllColumns \ {"Store"} \subseteq columns /\ raw # <<>>) => pc # "raised"

\* C1 (as claimed): when two consecutive observations of an entity are k + 1
\* weeks apart (k >= 1), the result holds both observed rows and exactly k
\* rows between them, each with the value of the earlier observation.
C1_GapFill ==
    Done =>
        \A e \in Entities : \A t1 \in ObsTimes(e) : \A t2 \in ObsTimes(e) :
            ( /\ t1 < t2
              /\ ~\E u \in ObsTimes(e) : t1 < u /\ u < t2
              /\ (t2 - t1) % 7 = 0
              /\ t2 - t1 >= 14 ) =>
                LET between == {i \in OutOf(e) :
                                   t1 < ts_df[i].timestamp /\ ts_df[i].timestamp < t2}
                IN  /\ \E i \in OutAt(e, t1) : ts_df[i].target = ObsValue(e, t1)
                    /\ \E i \in OutAt(e, t2) : ts_df[i].target = ObsValue(e, t2)
                    /\ Cardinality(between) = (t2 - t1) \div 7 - 1
                    /\ \A i \in between : ts_df[i].target = ObsValue(e, t1)

\* C2 (as claimed): when an entity has two valid raw rows at one timestamp,
\* the result holds exactly one row for that entity at that timestamp, and
\* its value is the mean of the two amounts.
C2_Deduplication ==
    Done =>
        \A e \in Entities : \A t \in ObsTimes(e) :
            Cardinality(RowsAt(e, t)) = 2 =>
                /\ Cardinality(OutAt(e, t)) = 1
                /\ \A i \in OutAt(e, t) :
                       ts_df[i].target = Frac(SumAmounts(RowsAt(e, t)), 2)

\* C7 (as claimed): an entity whose raw rows already are a regular weekly
\* series (of two weeks or more) comes back unchanged: one row per observed
\* timestamp, with the observed value, and no other row.
C7_Idempotence ==
    Done =>
        \A e \in Entities :
            (RegularSeries(e) /\ Cardinality(ObsTimes(e)) >= 2) =>
                /\ \A t \in ObsTimes(e) :
                       /\ Cardinality(OutAt(e, t)) = 1
                       /\ \A i \in OutAt(e, t) : ts_df[i].target = ObsValue(e, t)
                /\ \A i \in OutOf(e) : ts_df[i].timestamp \in ObsTimes(e)


====
